---- MODULE Spec2Model ----
(***************************************************************************)
(* Phillips' two-level quasi-geostrophic model (src/phillips_model.py).    *)
(*                                                                         *)
(* Arithmetic.  The program computes in IEEE doubles; here every field     *)
(* value is an integer number of Unit m^2/s and every coefficient is an    *)
(* exact rational num/den, so a product coef*field is MulDiv(field, num,   *)
(* den): the exact product rounded to the nearest field unit.  Rounding is *)
(* therefore to 1 Unit instead of to 1 ulp.  Lengths are in Mm (1e6 m),    *)
(* the clock and the time step in seconds, winds in 0.1 m/s.               *)
(*                                                                         *)
(* The grid is nx x ny = 16 x 16 in the program; the model keeps the       *)
(* program's dependence of dx, dy, eps, gamma, alpha, b, c, h on nx and ny *)
(* and runs it on a reduced NX x NY grid.                                  *)
(***************************************************************************)
EXTENDS Integers, Sequences, FiniteSets, TLC

\* ---------------------------------------------------------------- bounds
NX == 3
NY == 4
\* Regular steps explored after perturb() (a bound on the run length).
MaxSteps == 102

\* ------------------------------------------------------- program constants
\* Grid.L = 6.0e6 m and Grid.W = 5.0e6 m, in Mm.
L == 6
W == 5
dt1 == 86400
dt2 == 7200
min_dt == 1800
day1 == 131
\* Seconds per day, the literal of step() and spinup().
DaySec == 86400
\* Cap of both relaxation loops: range(100).
MaxIter == 100
\* Model.noisescale = 7.509e6 m^2/s, in 1000 m^2/s.
NoiseK == 7509
\* Seed of the middle-square generator, as two base-10^5 digits.
SeedHi == 11111
SeedLo == 11111

\* m^2/s per field unit (the fixed-point resolution of the fields).
Unit == 10 ^ 3

\* ---------------------------------------------------------------- arithmetic
Abs(a) == IF a < 0 THEN -a ELSE a

Max(a, b) == IF a >= b THEN a ELSE b

\* a/b rounded to nearest, halves away from zero (b > 0).
RDiv(a, b) ==
  IF a >= 0 THEN (a + b \div 2) \div b ELSE -((-a + b \div 2) \div b)

RECURSIVE GCD(_, _)
GCD(a, b) == IF b = 0 THEN a ELSE GCD(b, a % b)

\* <<quotient, remainder>> of r*n by d for 0 <= r < d, n >= 0, d < 2^29,
\* by binary long multiplication (no intermediate exceeds 3*d).
RECURSIVE QR(_, _, _)
QR(r, n, d) ==
  IF n = 0 THEN <<0, 0>>
  ELSE IF r = 0 \/ r <= 2147483647 \div n THEN <<(r * n) \div d, (r * n) % d>>
  ELSE LET h == QR(r, n \div 2, d)
           t == 2 * h[2] + r * (n % 2)
       IN  <<2 * h[1] + t \div d, t % d>>

\* a*n/d rounded to nearest for n >= 0, d > 0: the exact rational product.
MulDivPos(a, n, d) ==
  LET qr == QR(a % d, n, d)
  IN  (a \div d) * n + qr[1] + (IF 2 * qr[2] >= d THEN 1 ELSE 0)

MulDiv(a, n, d) ==
  LET sg == IF (a < 0) = (n < 0) THEN 1 ELSE -1
      g == GCD(Abs(n), d)
  IN  IF a = 0 \/ n = 0 THEN 0
      ELSE sg * MulDivPos(Abs(a), Abs(n) \div g, d \div g)

\* Exact rationals <<num, den>>, den > 0, in lowest terms.
Rat(n, d) == LET g == GCD(Abs(n), d) IN <<n \div g, d \div g>>

RatMul(p, q) ==
  LET g1 == GCD(Abs(p[1]), q[2])
      g2 == GCD(Abs(q[1]), p[2])
  IN  IF p[1] = 0 \/ q[1] = 0 THEN <<0, 1>>
      ELSE <<(p[1] \div g1) * (q[1] \div g2), (p[2] \div g2) * (q[2] \div g1)>>

RatAdd(p, q) ==
  LET g == GCD(p[2], q[2])
  IN  Rat(p[1] * (q[2] \div g) + q[1] * (p[2] \div g), (p[2] \div g) * q[2])

\* coef * field and field / coef, rounded to the field unit
Mul(r, a) == MulDiv(a, r[1], r[2])
Div(a, r) == IF r[1] < 0 THEN MulDiv(-a, r[2], -r[1]) ELSE MulDiv(a, r[2], r[1])

RECURSIVE SumFn(_, _, _)
SumFn(f, lo, hi) == IF lo > hi THEN 0 ELSE f[lo] + SumFn(f, lo + 1, hi)

\* Forces a lazily defined array to its table of values.
Force(f) == IF f = f THEN f ELSE f

\* The value e, computed once x has been computed: the order in which the
\* program executes two statements.
After(x, e) == IF x = x THEN e ELSE e

\* ------------------------------------------------------------------- Grid
IX == 0 .. NX
JX == 0 .. NY

\* eps^2 = (dx/dy)^2 = EpsqN/CoefD and gamma = lambdasq*dx^2 = GammaN/CoefD
\* with dx = L/nx, dy = 2W/ny and lambdasq = 1.5e-12 m^-2 = 3/2 Mm^-2.
CoefD == 4 * W * W * NX * NX
EpsqN == L * L * NY * NY
GammaN == 6 * L * L * W * W
\* 2.0 + 2.0*epsq + gamma, over CoefD.
DiagN == 2 * CoefD + 2 * EpsqN + GammaN

\* periodic neighbours in longitude
Im(i) == IF i - 1 = 0 THEN NX ELSE i - 1
Ip(i) == IF i + 1 = NX + 1 THEN 1 ELSE i + 1

\* -------------------------------------------------------------------- Var
ZeroLev == [i \in IX |-> [j \in JX |-> 0]]
ZeroZ == [j \in JX |-> 0]

NewVar == [l1t |-> ZeroLev, l3t |-> ZeroLev, l1 |-> ZeroLev, l3 |-> ZeroLev,
           l1z |-> ZeroZ, l3z |-> ZeroZ]

\* mean over longitudes 1..nx of one level's total
ZMean(t) ==
  Force([j \in JX |-> RDiv(SumFn([i \in 1 .. NX |-> t[i][j]], 1, NX), NX)])

calc_zmean(f) == [f EXCEPT !.l1z = ZMean(f.l1t), !.l3z = ZMean(f.l3t)]

\* The mean of latitude 0 is removed at every latitude.
SplitAnomRow0(t, z) == Force([i \in IX |-> [j \in JX |-> t[i][j] - z[0]]])

\* l1[:] = l1t[:] - l1z[:], the mean broadcast over longitude
SplitAnom(t, z) == Force([i \in IX |-> [j \in JX |-> t[i][j] - z[j]]])

split(f) ==
  LET g == calc_zmean(f)
  IN  [g EXCEPT !.l1 = SplitAnom(g.l1t, g.l1z), !.l3 = SplitAnom(g.l3t, g.l3z)]

\* The mean added is that of the latitude before.
ComposePrevRow(a, z) ==
  Force([i \in IX |-> [j \in JX |-> a[i][j] + z[IF j = 0 THEN 0 ELSE j - 1]]])

\* total := anomaly + zonal mean, the loop "for j: t[:,j] = a[:,j] + z[j]"
Compose(a, z) == Force([i \in IX |-> [j \in JX |-> a[i][j] + z[j]]])

\* The recomposition loop is left out: the totals keep their old values.
composeSkipped(f) == f

compose(f) ==
  [f EXCEPT !.l1t = Compose(f.l1, f.l1z), !.l3t = Compose(f.l3, f.l3z)]

settot(f, val) == [f EXCEPT !.l1t = val.l1t, !.l3t = val.l3t]

set(f, c) == [f EXCEPT !.l1 = [i \in IX |-> [j \in JX |-> c]],
                       !.l3 = [i \in IX |-> [j \in JX |-> c]]]

\* --------------------------------------------------------- calc_zonstream
\* Number of zonal means solved for.
nz == 2 * NY - 3

\* Matrix entries are held as integers over AScale, multipliers over LScale.
AScale == CoefD * 10 ^ 3
LScale == 10 ^ 6
AEps == EpsqN * 10 ^ 3
AGam == GammaN * 10 ^ 3

RECURSIVE AmatLevel1(_, _)
AmatLevel1(m, j) ==
  IF j > NY - 2 THEN m
  ELSE LET row == [m EXCEPT ![j][j - 1] = AEps,
                            ![j][j] = -2 * AEps - AGam,
                            ![j][j + 1] = AEps,
                            ![j][NY - 2 + j] = AGam]
       IN  After(row, AmatLevel1(row, j + 1))

RECURSIVE AmatLevel3(_, _)
AmatLevel3(m, j) ==
  IF j > nz - 1 THEN m
  ELSE LET row == [m EXCEPT ![j][j + 2 - NY] = AGam,
                            ![j][j - 1] = AEps,
                            ![j][j] = -2 * AEps - AGam,
                            ![j][j + 1] = AEps]
       IN  After(row, AmatLevel3(row, j + 1))

\* The matrix assembled on the first call, rows and columns 1..nz.
Amat ==
  LET z == [r \in 1 .. nz |-> [c \in 1 .. nz |-> 0]]
      e == [z EXCEPT ![1][1] = -AEps - AGam,
                     ![1][2] = AEps,
                     ![NY - 1][NY - 2] = AEps,
                     ![NY - 1][NY - 1] = -AEps - AGam,
                     ![NY - 1][nz] = AGam,
                     ![NY][2] = AGam,
                     ![NY][NY] = -2 * AEps - AGam,
                     ![NY][NY + 1] = AEps,
                     ![nz][NY - 1] = AGam,
                     ![nz][nz - 1] = AEps,
                     ![nz][nz] = -AEps - AGam]
      m1 == AmatLevel1(e, 2)
  IN  After(m1, AmatLevel3(m1, NY + 1))

\* a*s/b for a pivot b of either sign
FDiv(a, s, b) == IF b < 0 THEN MulDiv(-a, s, -b) ELSE MulDiv(a, s, b)

\* LAPACK dgetrf: LU with partial pivoting (row interchanges).  The result
\* holds U on and above the diagonal (over AScale) and the multipliers of L
\* below it (over LScale).
RECURSIVE LUFactor(_, _, _)
LUFactor(a, piv, k) ==
  IF k > nz THEN [lu |-> a, piv |-> piv]
  ELSE
    LET p == CHOOSE r \in k .. nz :
               \A q \in k .. nz :
                 \/ Abs(a[r][k]) > Abs(a[q][k])
                 \/ Abs(a[r][k]) = Abs(a[q][k]) /\ r <= q
        sw == [a EXCEPT ![k] = a[p], ![p] = a[k]]
        el == [r \in 1 .. nz |->
                 IF r <= k THEN sw[r]
                 ELSE LET m == FDiv(sw[r][k], LScale, sw[k][k])
                      IN  [c \in 1 .. nz |->
                             IF c < k THEN sw[r][c]
                             ELSE IF c = k THEN m
                             ELSE sw[r][c] - MulDiv(m, sw[k][c], LScale)]]
    IN  After(el, LUFactor(el, Append(piv, p), k + 1))

dgetrf(a) == LUFactor(a, <<>>, 1)

RECURSIVE PivotRows(_, _, _)
PivotRows(b, piv, k) ==
  IF k > nz THEN b
  ELSE LET sw == [b EXCEPT ![k] = b[piv[k]], ![piv[k]] = b[k]]
       IN  After(sw, PivotRows(sw, piv, k + 1))

RECURSIVE ForwardL(_, _, _)
ForwardL(lu, y, i) ==
  IF i > nz THEN y
  ELSE LET y1 == [y EXCEPT ![i] = @ - SumFn([k \in 1 .. i - 1 |->
                                       MulDiv(y[k], lu[i][k], LScale)], 1, i - 1)]
       IN  After(y1, ForwardL(lu, y1, i + 1))

RECURSIVE BackwardU(_, _, _)
BackwardU(lu, xs, i) ==
  IF i < 1 THEN xs
  ELSE LET x1 == [xs EXCEPT ![i] = FDiv(@ - SumFn([c \in i + 1 .. nz |->
                                             MulDiv(xs[c], lu[i][c], AScale)],
                                          i + 1, nz),
                                AScale, lu[i][i])]
       IN  After(x1, BackwardU(lu, x1, i - 1))

\* LAPACK dgetrs: solves A X = B with the stored factors; the factors are
\* only read.
dgetrs(lu, piv, b) ==
  LET pb == PivotRows(b, piv, 1)
      y == After(pb, ForwardL(lu, pb, 1))
  IN  After(y, BackwardU(lu, y, nz))

\* Right-hand side from the zonal-mean vorticity.
Bmat(vv) ==
  [r \in 1 .. nz |-> IF r <= NY - 1 THEN vv.l1z[r] ELSE vv.l3z[r - (NY - 2)]]

\* The zonal-mean streamfunction from the solution, with the BC applied.
ZonStreamL1(X) ==
  [j \in JX |-> IF j = 0 THEN X[1] ELSE IF j = NY THEN X[NY - 1] ELSE X[j]]

\* Level 3 with row 1 taken from the solution vector like the rows above it.
ZonStreamL3Solved(X) ==
  [j \in JX |-> IF j = 0 THEN 0
                ELSE IF j = NY THEN X[NY - 2 + (NY - 1)]
                ELSE X[NY - 2 + j]]

ZonStreamL3(X) ==
  [j \in JX |-> IF j = 0 \/ j = 1 THEN 0
                ELSE IF j = NY THEN X[NY - 2 + (NY - 1)]
                ELSE X[NY - 2 + j]]

\* calc_zonstream(v, s): the factors to use (stored or new) and the new s.
\* "self.lu, self.piv, info = dgetrf(amat[1:,1:])"
AmatFactors == dgetrf(Amat)

\* The matrix is assembled and factorized on every call.
FactorsEveryCall(first, fac) ==
  [lu |-> AmatFactors.lu, piv |-> AmatFactors.piv, ran |-> TRUE]

\* "ran" tells whether this call assembled and factorized the matrix.
Factors(first, fac) ==
  IF first
  THEN [lu |-> AmatFactors.lu, piv |-> AmatFactors.piv, ran |-> TRUE]
  ELSE [lu |-> fac.lu, piv |-> fac.piv, ran |-> FALSE]

calc_zonstream(vv, ss, fac) ==
  LET b == Force(Bmat(vv))
      X == After(b, dgetrs(fac.lu, fac.piv, b))
  IN  After(X, [ss EXCEPT !.l1z = Force(ZonStreamL1(X)),
                          !.l3z = Force(ZonStreamL3(X))])

\* ------------------------------------------------------------ coefficients
epsq == Rat(EpsqN, CoefD)
gamma == Rat(GammaN, CoefD)
\* 2.0 + 2.0*epsq + gamma
diagc == Rat(DiagN, CoefD)

\* alpha = a*dt/dx^2 with a = 1.0e5 m^2/s = 1e-7 Mm^2/s
alpha(d) == Rat(d * NX * NX, 10 ^ 7 * L * L)

\* b = beta*dx^2*dy with beta = 1.6e-11 /s/m, in field units
bcoef == RDiv(16 * (10 ^ 6 \div Unit) * L * L * 2 * W, NX * NX * NY)

\* c = dt/(2*dx*dy); it multiplies a product of two fields, so it carries
\* one factor Unit.  Every time step is a whole number of 100 s.
ccoef(d) == Rat((d \div 100) * NX * NY, 4 * L * W * (10 ^ 6 \div Unit) * 10 ^ 4)

\* h from the default heat = 2.0e-3 W/kg, whatever the model's heat is.
hcoefDefault(d, ht) ==
  RatMul(RatMul(Rat(4 * 287 * 2 * (d \div 100), 1004), gamma), Rat(1000, Unit))

\* h = 4*rgas*heat*gamma*dt/(f0*cp) in field units; ht is heat in 1e-3 W/kg
\* (rgas = 287, cp = 1004, f0 = 1e-4).
hcoef(d, ht) ==
  RatMul(RatMul(Rat(4 * 287 * ht * (d \div 100), 1004), gamma), Rat(1000, Unit))

\* k*dt with k = 4.0e-6 /s
kdt(d) == Rat(4 * d, 10 ^ 6)

\* 1.5*k*dt
kdt15(d) == Rat(6 * d, 10 ^ 6)

\* --------------------------------------------------------------- xcalc_nb
\* c * (p * q) for fields p, q.
CProd(cc, p, q) == MulDiv(p, cc[1] * q, cc[2])

XTend(vt, vmt, st, cc, al, hs, i, j) ==
  vmt[i][j]
  + ( CProd(cc, vt[Ip(i)][j] - vt[Im(i)][j], st[i][j + 1] - st[i][j - 1])
      - CProd(cc, 2 * bcoef + vt[i][j + 1] - vt[i][j - 1],
              st[Ip(i)][j] - st[Im(i)][j]) )
  + Mul(al, vmt[Ip(i)][j] + vmt[Im(i)][j] - 2 * vmt[i][j]
            + Mul(epsq, vmt[i][j + 1] + vmt[i][j - 1] - 2 * vmt[i][j]))
  + MulDiv(2 * j - NY, hs[1], hs[2] * NY)

Interior(i, j) == i >= 1 /\ j >= 1 /\ j <= NY - 1

\* x1t, x3t are zeroed, then rows 1..ny-1, longitudes 1..nx are assigned.
xcalc_x1t(vv, vmm, ss, d, ht) ==
  [i \in IX |-> [j \in JX |->
     IF ~Interior(i, j) THEN 0
     ELSE XTend(vv.l1t, vmm.l1t, ss.l1t, ccoef(d), alpha(d), hcoef(d, ht), i, j)]]

xcalc_x3t(vv, vmm, ss, d, ht) ==
  [i \in IX |-> [j \in JX |->
     IF ~Interior(i, j) THEN 0
     ELSE XTend(vv.l3t, vmm.l3t, ss.l3t, ccoef(d), alpha(d), hcoef(d, -ht), i, j)
          - Mul(kdt(d), MulDiv(vmm.l3t[i][j], 3, 2) - vv.l1t[i][j]
                        - Mul(RatMul(<<4, 1>>, gamma),
                              ss.l1t[i][j] - ss.l3t[i][j]))]]

\* The array is left as it was handed in.
XcalcKept(xt) == xt

\* "x1t[:] = 0.0; x3t[:] = 0.0"
XcalcCleared(xt) == ZeroLev

\* The assignments of the loop, on the cleared array.
XcalcAssign(base, val) ==
  [i \in IX |-> [j \in JX |-> IF Interior(i, j) THEN val[i][j] ELSE base[i][j]]]

xcalc_nb(xx, vv, vmm, ss, d, ht) ==
  [xx EXCEPT
     !.l1t = Force(XcalcAssign(XcalcCleared(xx.l1t), xcalc_x1t(vv, vmm, ss, d, ht))),
     !.l3t = Force(XcalcAssign(XcalcCleared(xx.l3t), xcalc_x3t(vv, vmm, ss, d, ht)))]

\* --------------------------------------------------------------- calc_zvor
\* Coefficients of the tridiagonal system are integers over ZScale.
ZScale == 10 ^ 7
zn == NY - 1

\* alpha*epsq
ZvOff(d) == Mul(RatMul(alpha(d), epsq), ZScale)

\* amat, cmat (zn-1 entries) and bmat (zn entries), rows 1..zn are latitudes
ZvAmat(d) == [r \in 1 .. zn - 1 |-> ZvOff(d)]
ZvCmat(d) == [r \in 1 .. zn - 1 |-> ZvOff(d)]
\* The diagonal with the interior value on every row.
ZvBmatUniform(d) == [r \in 1 .. zn |-> -2 * ZvOff(d) - ZScale]

ZvBmat1(d) ==
  [r \in 1 .. zn |-> IF r = 1 \/ r = zn THEN -ZvOff(d) - ZScale
                     ELSE -2 * ZvOff(d) - ZScale]
\* bmat -= 1.5*k*dt
ZvBmat3(d) == [r \in 1 .. zn |-> ZvBmat1(d)[r] - Mul(kdt15(d), ZScale)]
ZvRmat(xz) == [r \in 1 .. zn |-> -xz[r]]

\* LAPACK dgtsv: elimination then back substitution.  The sub-diagonal is
\* smaller than the diagonal on every row, so no rows are interchanged.
RECURSIVE TriForward(_, _, _, _, _)
TriForward(am, bm, cm, rm, i) ==
  IF i > zn THEN [b |-> bm, r |-> rm]
  ELSE LET b1 == [bm EXCEPT ![i] = @ - FDiv(am[i - 1], cm[i - 1], bm[i - 1])]
           r1 == [rm EXCEPT ![i] = @ - FDiv(rm[i - 1], am[i - 1], bm[i - 1])]
       IN  After(<<b1, r1>>, TriForward(am, b1, cm, r1, i + 1))

RECURSIVE TriBackward(_, _, _, _)
TriBackward(f, cm, u, i) ==
  IF i < 1 THEN u
  ELSE LET u1 == [u EXCEPT ![i] =
                   IF i = zn THEN FDiv(f.r[i], ZScale, f.b[i])
                   ELSE FDiv(f.r[i] - MulDiv(u[i + 1], cm[i], ZScale),
                             ZScale, f.b[i])]
       IN  After(u1, TriBackward(f, cm, u1, i - 1))

dgtsv(am, bm, cm, rm) ==
  LET f == TriForward(Force(am), Force(bm), Force(cm), Force(rm), 2)
  IN  After(f, TriBackward(f, cm, [r \in 1 .. zn |-> 0], zn))

\* v.l1z[1:nz+1] = umat; v.l1z[0] = v.l1z[1]; v.l1z[ny] = v.l1z[ny-1]
ZvorBC(u) ==
  [j \in JX |-> IF j = 0 THEN u[1] ELSE IF j = NY THEN u[NY - 1] ELSE u[j]]

calc_zvor(xx, d, vv) ==
  [vv EXCEPT
     !.l1z = Force(ZvorBC(dgtsv(ZvAmat(d), ZvBmat1(d), ZvCmat(d),
                                ZvRmat(xx.l1z)))),
     !.l3z = Force(ZvorBC(dgtsv(ZvAmat(d), ZvBmat3(d), ZvCmat(d),
                                ZvRmat(xx.l3z))))]

\* --------------------------------------------------------------- relax1_nb
\* 0.5*3.75e4 m^2/s
Tol1 == 18750

\* maxdiff < 0.5*3.75e4, maxdiff a whole number of field units
BelowTol1(maxdiff) == maxdiff <= (Tol1 - 1) \div Unit

\* resid at (i,j) of level a, coupled to level b
Resid(a, b, va, i, j) ==
  Div( ( a[Ip(i)][j] + a[Im(i)][j]
         + Mul(epsq, a[i][j + 1] + a[i][j - 1])
         - va[i][j] + Mul(gamma, b[i][j]) )
       - Mul(diagc, a[i][j]),
       diagc )

\* Both levels are corrected by the level-1 residual.
Relax1PointSameResid(st, v1, v3, i, j) ==
  LET Point(r1) ==
        [s1 |-> [st.s1 EXCEPT ![i][j] = @ + r1],
         s3 |-> [st.s3 EXCEPT ![i][j] = @ + r1],
         maxdiff |-> Max(st.maxdiff, Abs(r1))]
  IN  Point(Resid(st.s1, st.s3, v1, i, j))

\* One grid point: s1 is updated, then s3 with the updated s1.
Relax1Point(st, v1, v3, i, j) ==
  LET Level3(r1, n1, r3) ==
        [s1 |-> n1, s3 |-> [st.s3 EXCEPT ![i][j] = @ + r3],
         maxdiff |-> Max(Max(st.maxdiff, Abs(r1)), Abs(r3))]
      Level1(r1, n1) == Level3(r1, n1, Resid(st.s3, n1, v3, i, j))
      Point(r1) == Level1(r1, [st.s1 EXCEPT ![i][j] = @ + r1])
  IN  Point(Resid(st.s1, st.s3, v1, i, j))

\* A sweep on two buffers: every correction is computed from the values the
\* sweep started with.
Relax1SweepJacobi(st, v1, v3, i, j) ==
  [s1 |-> [p \in IX |-> [q \in JX |->
             IF p >= 1 /\ q >= 1 /\ q <= NY - 1
             THEN st.s1[p][q] + Resid(st.s1, st.s3, v1, p, q)
             ELSE st.s1[p][q]]],
   s3 |-> [p \in IX |-> [q \in JX |->
             IF p >= 1 /\ q >= 1 /\ q <= NY - 1
             THEN st.s3[p][q] + Resid(st.s3, st.s1, v3, p, q)
             ELSE st.s3[p][q]]],
   maxdiff |-> IF \A p \in 1 .. NX, q \in 1 .. NY - 1 :
                    /\ BelowTol1(Abs(Resid(st.s1, st.s3, v1, p, q)))
                    /\ BelowTol1(Abs(Resid(st.s3, st.s1, v3, p, q)))
               THEN 0 ELSE Tol1]

\* The sweep "for j in range(1,ny): for i in range(1,nx+1)", from point (i,j).
RECURSIVE Relax1Sweep(_, _, _, _, _)
Relax1Sweep(st, v1, v3, i, j) ==
  IF j > NY - 1 THEN st
  ELSE IF i > NX THEN Relax1Sweep(st, v1, v3, 1, j + 1)
  ELSE LET Next(pt) == After(pt, Relax1Sweep(pt, v1, v3, i + 1, j))
       IN  Next(Relax1Point(st, v1, v3, i, j))

\* The sweeps of a loop are evaluated in blocks of this many.
BlockLen == MaxIter \div 10

\* "for iter in range(100)": iter is the loop variable when the loop is left,
\* by break or by exhaustion.  Sweeps iter .. last, "stop" when the loop is
\* left within them.
RECURSIVE Relax1Block(_, _, _, _, _, _)
Relax1Block(s1, s3, v1, v3, iter, last) ==
  LET Swept(sw, stop) ==
        IF stop \/ iter >= last
        THEN [s1 |-> sw.s1, s3 |-> sw.s3, iter |-> iter,
              maxdiff |-> sw.maxdiff, stop |-> stop]
        ELSE Relax1Block(sw.s1, sw.s3, v1, v3, iter + 1, last)
      Sweep(sw) == Swept(sw, BelowTol1(sw.maxdiff) \/ iter + 1 >= MaxIter)
  IN  Sweep(Relax1Sweep([s1 |-> s1, s3 |-> s3, maxdiff |-> 0], v1, v3, 1, 1))

RECURSIVE Relax1Loop(_, _, _, _, _)
Relax1Loop(s1, s3, v1, v3, iter) ==
  LET Blocks(b) ==
        IF b.stop
        THEN [s1 |-> b.s1, s3 |-> b.s3, iter |-> b.iter, maxdiff |-> b.maxdiff]
        ELSE Relax1Loop(b.s1, b.s3, v1, v3, b.iter + 1)
  IN  Blocks(Relax1Block(s1, s3, v1, v3, iter, iter + BlockLen - 1))

\* "if iter >= 100: raise Exception('RELAX1 failed ...')"
Relax1Raises(iter) == iter >= MaxIter

relax1_nb(v1, v3, s1, s3) ==
  LET Left(r) ==
        [s1 |-> r.s1, s3 |-> r.s3, iter |-> r.iter, maxdiff |-> r.maxdiff,
         converged |-> BelowTol1(r.maxdiff), raised |-> Relax1Raises(r.iter)]
  IN  Left(Relax1Loop(s1, s3, v1, v3, 0))

\* --------------------------------------------------------------- relax2_nb
\* (v - temp)**2 in field units squared, saturated (only "< 1.0" is used)
SqCap(d) == IF Abs(d) > 1000 THEN 10 ^ 6 ELSE d * d

\* np.sum((v[1:,1:] - temp[1:,1:])**2)
Change(vv, temp) ==
  SumFn([i \in 1 .. NX |->
           SumFn([j \in 1 .. NY |-> SqCap(vv[i][j] - temp[i][j])], 1, NY)],
        1, NX)

\* Floating point.  Line 130 sets the numpy error state to raise on overflow,
\* invalid and divide; the kernels are compiled by "@nb.jit" and their
\* arithmetic does not consult that state: an overflow gives inf and the
\* kernel goes on.  The fields of the model are bounded by its integers, and
\* the range of its floats is scaled down with them: SqrtMaxFloat is the
\* largest magnitude, in field units, whose square is a finite float.
SqrtMaxFloat == 100000

\* A term of "np.sum((v[1:,1:] - temp[1:,1:])**2)" overflows.
SquareOverflows(vv, temp) ==
  \E i \in 1 .. NX, j \in 1 .. NY : Abs(vv[i][j] - temp[i][j]) > SqrtMaxFloat

\* 1.0 (m^2/s)^2
Tol2 == 1

\* max(change1, change3) < 1.0, the changes whole numbers of Unit^2
BelowTol2(ch1, ch3) == Max(ch1, ch3) <= (Tol2 - 1) \div (Unit * Unit)

\* 2*alpha*(1.0 + epsq) + 1.0, and the level-3 one with + 1.5*k*dt
R2Den1(d) == RatAdd(RatMul(RatMul(<<2, 1>>, alpha(d)), RatAdd(<<1, 1>>, epsq)), <<1, 1>>)
R2Den3(d) == RatAdd(R2Den1(d), kdt15(d))

R2Temp(va, xa, al, den) ==
  [i \in IX |-> [j \in JX |->
     IF ~Interior(i, j) THEN 0
     ELSE Div( Mul(al, va[Ip(i)][j] + va[Im(i)][j]
                             + Mul(epsq, va[i][j + 1] + va[i][j - 1]))
               + xa[i][j], den )]]

\* v[:,j].mean() over the nx+1 entries of a row
RowMean(va, j) == RDiv(SumFn([i \in IX |-> va[i][j]], 0, NX), NX + 1)

\* v[:,1:ny] = temp[:,1:ny], then boundary condition A17
RowsA17(temp) ==
  [i \in IX |-> [j \in JX |->
     IF j = 0 THEN RowMean(temp, 1)
     ELSE IF j = NY THEN RowMean(temp, NY - 1)
     ELSE temp[i][j]]]

\* The loop runs its whole range(100) whatever the changes are.
Relax2StopsAtCap(below, iter) == iter + 1 >= MaxIter

\* The loop is left by "break" when the criterion is met, or by exhaustion.
Relax2Stops(below, iter) == below \/ iter + 1 >= MaxIter

\* "early" tells whether a sweep before the last one met the criterion.
\* Sweeps iter .. last, "stop" when the loop is left within them.
RECURSIVE Relax2Block(_, _, _, _, _, _, _, _, _, _)
Relax2Block(v1, v3, x1, x3, al, den1, den3, iter, early, last) ==
  LET Swept(below, n1, n3) ==
        IF Relax2Stops(below, iter)
        THEN [v1 |-> n1, v3 |-> n3, iter |-> iter, converged |-> below,
              early |-> early, stop |-> TRUE]
        \* a sweep that reproduces v repeats itself unchanged up to the cap
        ELSE IF n1 = v1 /\ n3 = v3
        THEN [v1 |-> n1, v3 |-> n3, iter |-> MaxIter - 1, converged |-> below,
              early |-> early \/ below, stop |-> TRUE]
        ELSE IF iter >= last
        THEN [v1 |-> n1, v3 |-> n3, iter |-> iter, converged |-> below,
              early |-> early \/ below, stop |-> FALSE]
        ELSE Relax2Block(n1, n3, x1, x3, al, den1, den3, iter + 1,
                         early \/ below, last)
      Sweep(temp1, temp3) ==
        Swept(BelowTol2(Change(v1, temp1), Change(v3, temp3)),
              Force(RowsA17(temp1)), Force(RowsA17(temp3)))
  IN  Sweep(Force(R2Temp(v1, x1, al, den1)), Force(R2Temp(v3, x3, al, den3)))

RECURSIVE Relax2Loop(_, _, _, _, _, _, _, _, _)
Relax2Loop(v1, v3, x1, x3, al, den1, den3, iter, early) ==
  LET Blocks(b) ==
        IF b.stop
        THEN [v1 |-> b.v1, v3 |-> b.v3, iter |-> b.iter,
              converged |-> b.converged, early |-> b.early]
        ELSE Relax2Loop(b.v1, b.v3, x1, x3, al, den1, den3, b.iter + 1, b.early)
  IN  Blocks(Relax2Block(v1, v3, x1, x3, al, den1, den3, iter, early,
                         iter + BlockLen - 1))

\* v1[:] = 0.0; v3[:] = 0.0; then the loop.  It has no raise.
relax2_nb(x1, x3, d) ==
  LET al == Force(alpha(d))
      den1 == Force(R2Den1(d))
      den3 == Force(R2Den3(d))
  IN  Relax2Loop(ZeroLev, ZeroLev, x1, x3, al, den1, den3, 0, FALSE)

\* ------------------------------------------------------ stability_criterion
AbsGrad(st, i, j) ==
  Abs(st[Ip(i)][j] - st[Im(i)][j]) + Abs(st[i][j + 1] - st[i][j - 1])

RECURSIVE MaxOver(_, _)
MaxOver(S, f) ==
  IF S = {} THEN 0
  ELSE LET e == CHOOSE q \in S : TRUE IN Max(f[e], MaxOver(S \ {e}, f))

\* The maximum over the interior, taken longitude by longitude.
smax(ss) ==
  MaxOver(1 .. NX, [i \in 1 .. NX |->
    MaxOver(1 .. NY - 1, [j \in 1 .. NY - 1 |->
      Max(AbsGrad(ss.l1t, i, j), AbsGrad(ss.l3t, i, j))])])

\* 0.5*dt*smax/(dx*dy), in thousandths
stability_criterion(d, ss) ==
  LET cc == ccoef(d) IN MulDiv(smax(ss), 1000 * cc[1], cc[2])

\* ------------------------------------------------------------- diagnostics
\* Winds are in 0.1 m/s: a streamfunction difference over dy (dx) metres.
perdy == Rat(10 * Unit * NY, 2 * W * 10 ^ 6)
perdx == Rat(10 * Unit * NX, L * 10 ^ 6)

\* u[:,1:] = -(s[:,1:ny+1] - s[:,0:ny])/dy, row 0 stays zero
calc_u_lev(st) ==
  [i \in IX |-> [j \in JX |->
     IF j = 0 THEN 0 ELSE -Mul(perdy, st[i][j] - st[i][j - 1])]]

\* v[i,:] = (s[i,:] - s[im,:])/dx for i in 1..nx, longitude 0 stays zero
calc_v_lev(st) ==
  [i \in IX |-> [j \in JX |->
     IF i = 0 THEN 0 ELSE Mul(perdx, st[i][j] - st[Im(i)][j])]]

calc_u(ss) == [NewVar EXCEPT !.l1t = calc_u_lev(ss.l1t), !.l3t = calc_u_lev(ss.l3t)]
calc_v(ss) == [NewVar EXCEPT !.l1t = calc_v_lev(ss.l1t), !.l3t = calc_v_lev(ss.l3t)]

\* Saturating sum of squares: exact below SatCap, SatCap above.
SatCap == 10 ^ 9
SatAdd(a, b) == IF a + b > SatCap THEN SatCap ELSE a + b
SatSq(d) == IF Abs(d) > 31000 THEN SatCap ELSE d * d

\* np.sum of the squares, longitude by longitude
RECURSIVE RowSq(_, _)
RowSq(row, j) ==
  IF j > NY THEN 0 ELSE SatAdd(SatSq(row[j]), RowSq(row, j + 1))

RECURSIVE SumSq(_, _)
SumSq(a, i) ==
  IF i > NX THEN 0 ELSE SatAdd(RowSq(a[i], 0), SumSq(a, i + 1))

\* eke = 10.0*np.sum(u.l1**2 + u.l3**2 + v.l1**2 + v.l3**2)/(2*ny*nx) of
\* calc_energy, in m^2/s^2 (winds are in 0.1 m/s, hence the 100).
calc_eke(ss) ==
  LET u == split(calc_u(ss))
      w == split(calc_v(ss))
      sm == SatAdd(SatAdd(SumSq(u.l1, 0), SumSq(u.l3, 0)),
                   SatAdd(SumSq(w.l1, 0), SumSq(w.l3, 0)))
  IN  MulDiv(sm, 10, 100 * 2 * NY * NX)

\* "if eke > 1e5: raise Exception('EKE too large')"
EkeMax == 100000
DiagRaises(e) == e > EkeMax

\* ----------------------------------------------------------------- perturb
\* msq_rand on x = hi*10^5 + lo: ((x*x) // 10**5) % 10**10
msq_rand(r) ==
  LET hh == QR(r[1], r[1], 10 ^ 5)
      hl == QR(r[1], r[2], 10 ^ 5)
      ll == QR(r[2], r[2], 10 ^ 5)
      lw == 2 * hl[2] + ll[1]
  IN  <<(hh[2] + 2 * hl[1] + lw \div 10 ^ 5) % 10 ^ 5, lw % 10 ^ 5>>

\* The loop "for i in 1..nx: for j in 1..ny-1" draws one number per point;
\* float(rval)/10**10 is kept to five decimals (rval's high digit group).
RECURSIVE RandFill(_, _, _, _)
RandFill(a, r, i, j) ==
  IF i > NX THEN a
  ELSE IF j > NY - 1 THEN RandFill(a, r, i + 1, 1)
  ELSE LET n == msq_rand(r)
           a1 == [a EXCEPT ![i][j] = n[1]]
       IN  After(a1, RandFill(a1, n, i, j + 1))

\* calcvor on one level: a is the level, o the other one
calcvor_lev(a, o) ==
  LET inner == Force([i \in IX |-> [j \in JX |->
                 IF ~Interior(i, j) THEN 0
                 ELSE (a[Ip(i)][j] + a[Im(i)][j] - 2 * a[i][j])
                      + Mul(epsq, a[i][j + 1] + a[i][j - 1] - 2 * a[i][j])
                      - Mul(gamma, a[i][j] - o[i][j])]])
  IN  RowsA17(inner)

calcvor(ss) ==
  [NewVar EXCEPT !.l1t = calcvor_lev(ss.l1t, ss.l3t),
                 !.l3t = calcvor_lev(ss.l3t, ss.l1t)]

\* vm is left at the previous-time value: no interpolation to the new step.
InterpNone(vt, vmt, num, den) == vmt

\* vm = v - (v - vm)*num/den on one level
Interp(vt, vmt, num, den) ==
  [i \in IX |-> [j \in JX |-> vt[i][j] - MulDiv(vt[i][j] - vmt[i][j], num, den)]]

AddLev(a, b) == [i \in IX |-> [j \in JX |-> a[i][j] + b[i][j]]]

\* noisescale*stmp.l1, ns in 1000 m^2/s and the anomaly in 1e-5
ScaleNoise(a, ns) ==
  [i \in IX |-> [j \in JX |-> MulDiv(a[i][j], ns, 100 * Unit)]]

\* vtmp of perturb(): the vorticity of the scaled random anomaly
NoiseVor(ns) ==
  LET r == Force(RandFill(ZeroLev, <<SeedHi, SeedLo>>, 1, 1))
      stmp == split([NewVar EXCEPT !.l1t = r, !.l3t = r])
      sc == [stmp EXCEPT !.l1t = Force(ScaleNoise(stmp.l1, ns)),
                         !.l3t = Force(ScaleNoise(stmp.l3, ns))]
  IN  calcvor(sc)

\* ------------------------------------------------------------------- state
VARIABLES
  v, vm, s, x,          \* Model.v, Model.vm, Model.s, Model.x
  time, dt,             \* Model.time (s), Model.dt (s)
  first_step, fac,      \* Model.first_step; Model.lu and Model.piv
  heat, noisescale,     \* Model.heat (1e-3 W/kg), Model.noisescale (1000 m^2/s)
  variable_step, diag_freq,
  phase,                \* where the driver is: new, spinup, spunup, run,
                        \* direct (step() called on a new model), failed
  err,                  \* message of the exception that ended the run
  nsteps,               \* step() calls made so far
  nfactor,              \* executions of the assembly and dgetrf
  r1, r2, eke           \* what the last relax1_nb, relax2_nb and diag found

vars == <<v, vm, s, x, time, dt, first_step, fac, heat, noisescale,
          variable_step, diag_freq, phase, err, nsteps, nfactor, r1, r2, eke>>

NoR1 == [iter |-> -1, maxdiff |-> 0, converged |-> FALSE, raised |-> FALSE]
NoR2 == [iter |-> -1, converged |-> FALSE, early |-> FALSE]
NoFac == [lu |-> <<>>, piv |-> <<>>]
MaxDirect == 2

\* Run configurations: the Model attributes a run may set before it starts.
Configs ==
  { [heat |-> 2, noisescale |-> NoiseK, variable_step |-> TRUE, diag_freq |-> 3600],
    [heat |-> 0, noisescale |-> NoiseK, variable_step |-> TRUE, diag_freq |-> 3600],
    [heat |-> 100, noisescale |-> 0, variable_step |-> TRUE, diag_freq |-> 3600],
    [heat |-> 40, noisescale |-> 0, variable_step |-> FALSE, diag_freq |-> 3600],
    [heat |-> 0, noisescale |-> 200 * NoiseK, variable_step |-> TRUE,
     diag_freq |-> 2 * DaySec] }

\* The Model as constructed: at rest, clock 0, dt = dt1.
Init ==
  /\ v = NewVar /\ vm = NewVar /\ s = NewVar /\ x = NewVar
  /\ time = 0 /\ dt = dt1
  /\ first_step = TRUE /\ fac = NoFac
  /\ \E c \in Configs :
       /\ heat = c.heat /\ noisescale = c.noisescale
       /\ variable_step = c.variable_step /\ diag_freq = c.diag_freq
  /\ phase = "new" /\ err = "" /\ nsteps = 0 /\ nfactor = 0
  /\ r1 = NoR1 /\ r2 = NoR2 /\ eke = 0

Cfg == <<heat, noisescale, variable_step, diag_freq>>

\* The forward step takes the whole zonal-mean tendency.
ForwardWhole(vz, x1) == [vz EXCEPT !.l1z = x1.l1z, !.l3z = x1.l3z]

\* "v.l1z = 0.5*x.l1z; v.l3z = 0.5*x.l3z", the forward step from rest
ForwardFromRest(vz, x1) ==
  [vz EXCEPT !.l1z = Force([j \in JX |-> MulDiv(x1.l1z[j], 1, 2)]),
             !.l3z = Force([j \in JX |-> MulDiv(x1.l3z[j], 1, 2)])]

\* The loop is left one iteration late.
SpinupDoneLate(t) == t > day1 * DaySec

\* "if self.day >= self.day1: break", day = time/86400.0
SpinupDone(t) == t >= day1 * DaySec

\* One iteration of the loop of spinup().
SpinupIter ==
  /\ phase \in {"new", "spinup"}
  /\ \E v0 \in {split(v)}, f \in {Factors(first_step, fac)} :
     \E sz \in {calc_zonstream(v0, s, f)} :
     \E s1 \in {compose(set(sz, 0))} :
     \E x1 \in {split(xcalc_nb(x, v0, vm, s1, dt, heat))} :
     \E vz \in {calc_zvor(x1, dt, v0)} :
     \* forward step from rest, or vm.settot(v)
     \E v1 \in {IF time = 0 THEN ForwardFromRest(vz, x1) ELSE vz} :
       /\ fac' = [lu |-> f.lu, piv |-> f.piv]
       /\ nfactor' = IF f.ran THEN nfactor + 1 ELSE nfactor
       /\ s' = s1
       /\ x' = x1
       /\ v' = compose(set(v1, 0))
       /\ vm' = IF time = 0 THEN vm ELSE settot(vm, v0)
  /\ first_step' = FALSE
  /\ time' = time + dt
  /\ phase' = IF SpinupDone(time + dt) THEN "spunup" ELSE "spinup"
  /\ UNCHANGED <<dt, Cfg, err, nsteps, r1, r2, eke>>

\* perturb(), then main()'s "m.dt = m.dt2".
Perturb ==
  /\ phase = "spunup"
  /\ \E vt \in {NoiseVor(noisescale)} :
     \E m1 \in {Interp(v.l1t, vm.l1t, dt2, dt1)},
        m3 \in {Interp(v.l3t, vm.l3t, dt2, dt1)} :
       /\ v' = [v EXCEPT !.l1t = AddLev(v.l1t, vt.l1t),
                         !.l3t = AddLev(v.l3t, vt.l3t)]
       /\ vm' = [vm EXCEPT !.l1t = AddLev(m1, vt.l1t),
                           !.l3t = AddLev(m3, vt.l3t)]
  /\ dt' = dt2
  /\ phase' = "run"
  /\ UNCHANGED <<s, x, time, first_step, fac, Cfg, err, nsteps, nfactor,
                 r1, r2, eke>>

\* The time-step adaptation at the end of step(): TRUE when dt is reduced.
\* The stability check made after every step, not only at a day boundary.
AdaptsAnyTime(tnew, d, ss) ==
  /\ variable_step
  /\ d > min_dt
  /\ stability_criterion(d, ss) > 900

Adapts(tnew, d, ss) ==
  /\ variable_step
  /\ tnew % DaySec = 0
  /\ d > min_dt
  /\ stability_criterion(d, ss) > 900

\* diag() on every step.
DiagDueAlways(t, freq) == TRUE

\* "if self.time % self.diag_freq == 0"
DiagDue(t, freq) == t % freq = 0

\* A reduction that takes half of dt instead of min_dt.
NewDtHalved(d, ad) == IF ad THEN d \div 2 ELSE d

\* "self.dt -= self.min_dt" when the step adapts
NewDt(d, ad) == IF ad THEN d - min_dt ELSE d

\* step()
Step ==
  /\ \/ phase = "run" /\ nsteps < MaxSteps
     \/ phase \in {"new", "direct"} /\ nsteps < MaxDirect
  /\ \E v0 \in {split(v)}, f \in {Factors(first_step, fac)} :
     \E sz \in {calc_zonstream(v0, s, f)} :
     \E rx \in {relax1_nb(v0.l1, v0.l3, sz.l1, sz.l3)} :
       /\ first_step' = FALSE
       /\ fac' = [lu |-> f.lu, piv |-> f.piv]
       /\ nfactor' = IF f.ran THEN nfactor + 1 ELSE nfactor
       /\ nsteps' = nsteps + 1
       /\ r1' = [iter |-> rx.iter, maxdiff |-> rx.maxdiff,
                 converged |-> rx.converged, raised |-> rx.raised]
       /\ IF rx.raised
          THEN /\ phase' = "failed" /\ err' = "RELAX1 failed"
               /\ v' = v0
               /\ s' = [sz EXCEPT !.l1 = rx.s1, !.l3 = rx.s3]
               /\ UNCHANGED <<vm, x, time, dt, r2, eke>>
          ELSE
            \E s1 \in {compose([sz EXCEPT !.l1 = rx.s1, !.l3 = rx.s3])} :
            \E e \in {calc_eke(s1)} :
              IF DiagDue(time, diag_freq) /\ DiagRaises(e)
              THEN /\ phase' = "failed" /\ err' = "EKE too large"
                   /\ v' = v0 /\ s' = s1 /\ eke' = e
                   /\ UNCHANGED <<vm, x, time, dt, r2>>
              ELSE
                \E x1 \in {split(xcalc_nb(x, v0, vm, s1, dt, heat))} :
                \E vz \in {calc_zvor(x1, dt, v0)} :
                \E v1 \in {IF time = 0 THEN ForwardFromRest(vz, x1) ELSE vz},
                   vm1 \in {IF time = 0 THEN vm ELSE settot(vm, v0)} :
                \E ry \in {relax2_nb(x1.l1, x1.l3, dt)} :
                \E v2 \in {compose([v1 EXCEPT !.l1 = ry.v1, !.l3 = ry.v3])},
                   ad \in {Adapts(time + dt, dt, s1)} :
                  /\ phase' = IF phase = "new" THEN "direct" ELSE phase
                  /\ err' = err
                  /\ s' = s1 /\ x' = x1 /\ eke' = e
                  /\ r2' = [iter |-> ry.iter, converged |-> ry.converged,
                            early |-> ry.early]
                  /\ v' = v2
                  /\ time' = time + dt
                  /\ vm' = IF ad
                           THEN [vm1 EXCEPT
                                   !.l1t = Interp(v2.l1t, vm1.l1t, dt - min_dt, dt),
                                   !.l3t = Interp(v2.l3t, vm1.l3t, dt - min_dt, dt)]
                           ELSE vm1
                  /\ dt' = NewDt(dt, ad)
  /\ UNCHANGED Cfg

Next == SpinupIter \/ Perturb \/ Step

Spec == Init /\ [][Next]_vars

\* ------------------------------------------------- the kernels on their own
\* Var.split, the recomposition loop, relax1_nb and relax2_nb are functions of
\* the arrays they are handed.  SpecKernel hands them arrays drawn from a
\* family of patterns and amplitudes (field units).
KAmps == {0, 1, 2000, 10 ^ 6}
KPats == {"wave", "smooth", "ramp"}
KSeedAmps == {0, 1, 10 ^ 6}
KSeedPats == {"wave", "smooth"}

\* wave: zonal wave in the interior; smooth: constant in the interior;
\* ramp: a slope over the whole array, boundary rows and longitude 0 included
KValue(pat, amp, i, j) ==
  IF pat = "wave" THEN (IF Interior(i, j) THEN amp * (((2 * i + j) % 3) - 1) ELSE 0)
  ELSE IF pat = "smooth" THEN (IF Interior(i, j) THEN amp ELSE 0)
  ELSE amp * (2 * i + j - NY)

KLevel(pat, amp) == [i \in IX |-> [j \in JX |-> KValue(pat, amp, i, j)]]

\* level 3 is level 1 mirrored in latitude
KMirror(a) == [i \in IX |-> [j \in JX |-> a[i][NY - j]]]

\* A Var whose totals and anomalies both hold the drawn arrays.
KVar(pat, amp) ==
  LET a == Force(KLevel(pat, amp))
      b == Force(KMirror(a))
  IN  [NewVar EXCEPT !.l1t = a, !.l3t = b, !.l1 = a, !.l3 = b]

KFields == {KVar(p, a) : p \in KPats, a \in KAmps}
KSeeds == {KVar(p, a) : p \in KSeedPats, a \in KSeedAmps}

\* v: the argument (vorticity, or the field to split); s: the seed of relax1_nb;
\* vm and x keep copies of the argument and of the seed for comparison.
KInit ==
  /\ v \in KFields /\ s \in KSeeds
  /\ vm = v /\ x = s
  /\ time = 0 /\ dt = dt2
  /\ first_step = TRUE /\ fac = NoFac
  /\ heat = 0 /\ noisescale = 0 /\ variable_step = FALSE /\ diag_freq = DaySec
  /\ phase = "kernel" /\ err = "" /\ nsteps = 0 /\ nfactor = 0
  /\ r1 = NoR1 /\ r2 = NoR2 /\ eke = 0

KRest == <<time, dt, first_step, fac, Cfg, nsteps, nfactor, eke>>

\* v.split()
KSplit ==
  /\ phase = "kernel"
  /\ v' = split(v)
  /\ phase' = "ksplit"
  /\ UNCHANGED <<vm, s, x, err, r1, r2, KRest>>

\* "for j in range(ny+1): v.l1t[:,j] = v.l1[:,j] + v.l1z[j]; ..." after a split
KCompose ==
  /\ phase = "ksplit"
  /\ v' = compose(v)
  /\ phase' = "kcomposed"
  /\ UNCHANGED <<vm, s, x, err, r1, r2, KRest>>

\* relax1_nb(v.l1, v.l3, s.l1, s.l3, ...)
KRelax1 ==
  /\ phase = "kernel"
  /\ \E rx \in {relax1_nb(v.l1, v.l3, s.l1, s.l3)} :
         /\ s' = [s EXCEPT !.l1 = rx.s1, !.l3 = rx.s3]
         /\ r1' = [iter |-> rx.iter, maxdiff |-> rx.maxdiff,
                   converged |-> rx.converged, raised |-> rx.raised]
         /\ phase' = IF rx.raised THEN "failed" ELSE "krelax1"
         /\ err' = IF rx.raised THEN "RELAX1 failed" ELSE err
  /\ UNCHANGED <<v, vm, x, r2, KRest>>

\* relax2_nb(v.l1, v.l3, x.l1, x.l3, dt, ...) with x the drawn argument
KRelax2 ==
  /\ phase = "kernel"
  /\ \E ry \in {relax2_nb(vm.l1, vm.l3, dt)} :
         /\ v' = [v EXCEPT !.l1 = ry.v1, !.l3 = ry.v3]
         /\ r2' = [iter |-> ry.iter, converged |-> ry.converged, early |-> ry.early]
  /\ phase' = "krelax2"
  /\ UNCHANGED <<vm, s, x, err, r1, KRest>>

\* One iteration of the loop of relax1_nb: the sweep over the points.
KSweep1 ==
  /\ phase = "kernel"
  /\ \E sw \in {Relax1Sweep([s1 |-> s.l1, s3 |-> s.l3, maxdiff |-> 0],
                             v.l1, v.l3, 1, 1)} :
       /\ s' = [s EXCEPT !.l1 = sw.s1, !.l3 = sw.s3]
       /\ r1' = [NoR1 EXCEPT !.maxdiff = sw.maxdiff]
  /\ phase' = "ksweep1"
  /\ UNCHANGED <<v, vm, x, err, r2, KRest>>

\* One iteration of the loop of relax2_nb, from the iterate v with the
\* tendency s: temp1, temp3, then v[:,1:ny] = temp[:,1:ny] and A17.
KSweep2 ==
  /\ phase = "kernel"
  /\ v' = [v EXCEPT
            !.l1 = Force(RowsA17(R2Temp(v.l1, s.l1, alpha(dt), R2Den1(dt)))),
            !.l3 = Force(RowsA17(R2Temp(v.l3, s.l3, alpha(dt), R2Den3(dt))))]
  /\ phase' = "ksweep2"
  /\ UNCHANGED <<vm, s, x, err, r1, r2, KRest>>

\* xcalc_nb(vm.l1t, vm.l3t, vm.l1t, vm.l3t, s.l1t, s.l3t, v.l1t, v.l3t, ...):
\* the arrays written are those of v, which hold the drawn values.
KXcalc ==
  /\ phase = "kernel"
  /\ v' = xcalc_nb(v, vm, vm, s, dt, heat)
  /\ phase' = "kxcalc"
  /\ UNCHANGED <<vm, s, x, err, r1, r2, KRest>>

KNext ==
  KSplit \/ KCompose \/ KRelax1 \/ KRelax2 \/ KSweep1 \/ KSweep2 \/ KXcalc

SpecKernel == KInit /\ [][KNext]_vars

\* ------------------------------------------------- step() statement by statement
\* step() mutates v, vm, s and x in place.  SpecPhased runs spinup() and
\* perturb() as above and then step() one stage at a time; phase tells which
\* stage comes next.
MaxPhased == 13

\* "v.split()"
StepSplit ==
  /\ phase = "run" /\ nsteps < MaxPhased
  /\ v' = split(v)
  /\ nsteps' = nsteps + 1
  /\ phase' = "zonal"
  /\ UNCHANGED <<vm, s, x, time, dt, first_step, fac, Cfg, err, nfactor, r1, r2, eke>>

\* "self.calc_zonstream(v, s)"
StepZonstream ==
  /\ phase = "zonal"
  /\ \E f \in {Factors(first_step, fac)} :
       /\ s' = calc_zonstream(v, s, f)
       /\ fac' = [lu |-> f.lu, piv |-> f.piv]
       /\ nfactor' = IF f.ran THEN nfactor + 1 ELSE nfactor
  /\ first_step' = FALSE
  /\ phase' = "relax1"
  /\ UNCHANGED <<v, vm, x, time, dt, Cfg, err, nsteps, r1, r2, eke>>

\* "relax1_nb(v.l1, v.l3, s.l1, s.l3, ...)"
StepRelax1 ==
  /\ phase = "relax1"
  /\ \E rx \in {relax1_nb(v.l1, v.l3, s.l1, s.l3)} :
       /\ s' = [s EXCEPT !.l1 = rx.s1, !.l3 = rx.s3]
       /\ r1' = [iter |-> rx.iter, maxdiff |-> rx.maxdiff,
                 converged |-> rx.converged, raised |-> rx.raised]
       /\ phase' = IF rx.raised THEN "failed" ELSE "compose_s"
       /\ err' = IF rx.raised THEN "RELAX1 failed" ELSE err
  /\ UNCHANGED <<v, vm, x, time, dt, first_step, fac, Cfg, nsteps, nfactor, r2, eke>>

\* "for j in range(Grid.ny+1): s.l1t[:,j] = s.l1[:,j] + s.l1z[j]; ..."
StepComposeS ==
  /\ phase = "compose_s"
  /\ s' = compose(s)
  /\ phase' = "diag"
  /\ UNCHANGED <<v, vm, x, time, dt, first_step, fac, Cfg, err, nsteps, nfactor,
                 r1, r2, eke>>

\* "if self.time % self.diag_freq == 0: self.diag(self.day, s)"
StepDiag ==
  /\ phase = "diag"
  /\ \E e \in {calc_eke(s)} :
       /\ eke' = e
       /\ phase' = IF DiagDue(time, diag_freq) /\ DiagRaises(e)
                   THEN "failed" ELSE "tendency"
       /\ err' = IF DiagDue(time, diag_freq) /\ DiagRaises(e)
                 THEN "EKE too large" ELSE err
  /\ UNCHANGED <<v, vm, s, x, time, dt, first_step, fac, Cfg, nsteps, nfactor,
                 r1, r2>>

\* "xcalc_nb(v.l1t, v.l3t, vm.l1t, vm.l3t, s.l1t, s.l3t, x.l1t, x.l3t, ...)"
StepXcalc ==
  /\ phase = "tendency"
  /\ x' = xcalc_nb(x, v, vm, s, dt, heat)
  /\ phase' = "split_x"
  /\ UNCHANGED <<v, vm, s, time, dt, first_step, fac, Cfg, err, nsteps, nfactor,
                 r1, r2, eke>>

\* "x.split()"
StepSplitX ==
  /\ phase = "split_x"
  /\ x' = split(x)
  /\ phase' = "zvor"
  /\ UNCHANGED <<v, vm, s, time, dt, first_step, fac, Cfg, err, nsteps, nfactor,
                 r1, r2, eke>>

\* "self.calc_zvor(x, self.dt, v)", then the forward step from rest or
\* "vm.settot(v)"
StepZvor ==
  /\ phase = "zvor"
  /\ \E vz \in {calc_zvor(x, dt, v)} :
       /\ v' = IF time = 0 THEN ForwardFromRest(vz, x) ELSE vz
       /\ vm' = IF time = 0 THEN vm ELSE settot(vm, v)
  /\ phase' = "relax2"
  /\ UNCHANGED <<s, x, time, dt, first_step, fac, Cfg, err, nsteps, nfactor,
                 r1, r2, eke>>

\* "relax2_nb(v.l1, v.l3, x.l1, x.l3, self.dt, ...)"
StepRelax2 ==
  /\ phase = "relax2"
  /\ \E ry \in {relax2_nb(x.l1, x.l3, dt)} :
       /\ v' = [v EXCEPT !.l1 = ry.v1, !.l3 = ry.v3]
       /\ r2' = [iter |-> ry.iter, converged |-> ry.converged, early |-> ry.early]
  /\ phase' = "compose_v"
  /\ UNCHANGED <<vm, s, x, time, dt, first_step, fac, Cfg, err, nsteps, nfactor,
                 r1, eke>>

\* "for j in range(Grid.ny+1): v.l1t[:,j] = v.l1[:,j] + v.l1z[j]; ..."
StepComposeV ==
  /\ phase = "compose_v"
  /\ v' = compose(v)
  /\ phase' = "clock"
  /\ UNCHANGED <<vm, s, x, time, dt, first_step, fac, Cfg, err, nsteps, nfactor,
                 r1, r2, eke>>

\* "self.time += self.dt"
StepClock ==
  /\ phase = "clock"
  /\ time' = time + dt
  /\ phase' = "adapt"
  /\ UNCHANGED <<v, vm, s, x, dt, first_step, fac, Cfg, err, nsteps, nfactor,
                 r1, r2, eke>>

\* "if self.variable_step and self.time % 86400 == 0 and self.dt > self.min_dt:
\*  ... if stab_crit > 0.9: ..."; step() returns
StepAdapt ==
  /\ phase = "adapt"
  /\ \E ad \in {Adapts(time, dt, s)} :
       /\ vm' = IF ad
                THEN [vm EXCEPT !.l1t = Interp(v.l1t, vm.l1t, dt - min_dt, dt),
                                !.l3t = Interp(v.l3t, vm.l3t, dt - min_dt, dt)]
                ELSE vm
       /\ dt' = NewDt(dt, ad)
  /\ phase' = "run"
  /\ UNCHANGED <<v, s, x, time, first_step, fac, Cfg, err, nsteps, nfactor,
                 r1, r2, eke>>

PhasedNext ==
  \/ SpinupIter \/ Perturb
  \/ StepSplit \/ StepZonstream \/ StepRelax1 \/ StepComposeS \/ StepDiag
  \/ StepXcalc \/ StepSplitX \/ StepZvor \/ StepRelax2 \/ StepComposeV
  \/ StepClock \/ StepAdapt

SpecPhased == Init /\ [][PhasedNext]_vars

\* ------------------------------------------------------------------ claims
\* total[i,j] = anomaly[i,j] + zonal_mean[j] on both levels, i in 1..nx
Consistent(f) ==
  \A i \in 1 .. NX, j \in JX :
    /\ f.l1t[i][j] = f.l1[i][j] + f.l1z[j]
    /\ f.l3t[i][j] = f.l3[i][j] + f.l3z[j]

\* largest absolute value of a level
MaxAbs(a) ==
  MaxOver(IX, [i \in IX |-> MaxOver(JX, [j \in JX |-> Abs(a[i][j])])])

ZeroInside(a) == \A i \in 1 .. NX, j \in 1 .. NY - 1 : a[i][j] = 0

\* C1: relax1_nb never returns normally with an iterate whose last sweep
\* missed the threshold 0.5*3.75e4: a call that uses up its 100 sweeps
\* without converging raises 'RELAX1 failed'.
C1_RaisesWhenUnconverged ==
  (r1.iter >= 0 /\ ~r1.converged) => (r1.raised /\ err = "RELAX1 failed")

\* C2: during regular stepping dt never increases, every change of dt is a
\* decrease by exactly min_dt, and dt is never below min_dt.
C2_DtDecreasesByMinDt ==
  [][ /\ (phase' = "run" => dt' >= min_dt)
      /\ (phase = "run" => (dt' = dt \/ dt' = dt - min_dt)) ]_vars

\* dt has come down to min_dt and a day boundary asks for a further reduction
C2_Witness ==
  /\ phase = "run" /\ dt = min_dt /\ variable_step
  /\ time % DaySec = 0
  /\ stability_criterion(dt, s) > 900

\* C3 as stated: after every spinup iteration, perturb() and step(), each of
\* v, vm, s and x has total = anomaly + zonal mean.
C3_EveryFieldConsistent ==
  Consistent(v) /\ Consistent(vm) /\ Consistent(s) /\ Consistent(x)

\* C3 as the code has it: s and x always have total = anomaly + zonal mean,
\* and so has v except between perturb() and the next step(); vm is only
\* ever given totals, its anomaly and zonal mean stay zero.
C3_SplitFieldsConsistent ==
  /\ Consistent(s) /\ Consistent(x)
  /\ (~(phase = "run" /\ nsteps = 0) => Consistent(v))
  /\ vm.l1 = ZeroLev /\ vm.l3 = ZeroLev /\ vm.l1z = ZeroZ /\ vm.l3z = ZeroZ

\* a step has left v with eddies on a non-zero zonal mean, and vm non-zero
C3_Witness ==
  /\ phase = "run" /\ nsteps >= 1
  /\ \E i \in 1 .. NX, j \in JX : v.l1[i][j] # 0 /\ v.l1z[j] # 0
  /\ vm.l1t # ZeroLev

\* C4: the matrix is assembled and factorized exactly once, by the first
\* call of calc_zonstream; later calls leave the stored factors untouched.
C4_FactorizedOnce ==
  [][ IF first_step
      THEN /\ nfactor' = 1 /\ ~first_step'
           /\ fac' = [lu |-> AmatFactors.lu, piv |-> AmatFactors.piv]
      ELSE /\ nfactor' = nfactor /\ ~first_step' /\ fac' = fac ]_vars

\* spinup and several steps have solved against the one factorization
C4_Witness ==
  phase = "run" /\ nsteps >= 2 /\ nfactor = 1 /\ fac # NoFac /\ s.l1z # ZeroZ

\* C5: spinup() terminates, and returns with the clock at day1 * 86400 s:
\* every iteration of its loop advances the clock by dt1 without passing
\* day1 * 86400 s, and the loop is left exactly when the clock is there.
C5_SpinupEndsAtDay1 ==
  [][ (phase \in {"new", "spinup"} /\ phase' \in {"spinup", "spunup"})
      => ( /\ time' = time + dt1
           /\ time' <= day1 * DaySec
           /\ (phase' = "spunup" <=> time' = day1 * DaySec) ) ]_vars

\* spinup() has returned
C5_Witness == phase = "spunup" /\ time = day1 * DaySec /\ nsteps = 0

\* C6 as stated: no step() completes normally with eddy kinetic energy
\* above 1e5: it raises 'EKE too large'.
C6_RaisesWheneverAbove ==
  eke > EkeMax => (phase = "failed" /\ err = "EKE too large")

\* C6 as the code has it: step() raises 'EKE too large' exactly when the
\* clock it starts from is a multiple of diag_freq and the eddy kinetic
\* energy of its streamfunction is above 1e5.
C6_RaisesOnDiagSteps ==
  [][ nsteps' # nsteps =>
        ( (phase' = "failed" /\ err' = "EKE too large")
          <=> (time % diag_freq = 0 /\ eke' > EkeMax) ) ]_vars

\* a step that ran diag() found too much eddy kinetic energy and raised
C6_Witness ==
  phase = "failed" /\ err = "EKE too large" /\ eke > EkeMax /\ time % diag_freq = 0

\* C7: from the rest state with zero heating, one step() leaves v, vm, s and
\* x zero on both levels and only advances the clock.
C7_RestIsFixedPoint ==
  [][ ( /\ nsteps' # nsteps /\ heat = 0 /\ time = 0
        /\ v = NewVar /\ vm = NewVar /\ s = NewVar /\ x = NewVar )
      => ( /\ v' = NewVar /\ vm' = NewVar /\ s' = NewVar /\ x' = NewVar
           /\ time' = time + dt /\ phase' # "failed" ) ]_vars

\* one step() was taken from rest with zero heating
C7_Witness ==
  /\ phase = "direct" /\ heat = 0 /\ nsteps = 1 /\ time = dt
  /\ v = NewVar /\ s = NewVar

\* C8: split() followed by the recomposition reproduces the total at every
\* longitude 1..nx and latitude 0..ny on both levels.
C8_SplitComposeRoundTrip ==
  phase = "kcomposed" =>
    \A i \in 1 .. NX, j \in JX :
      v.l1t[i][j] = vm.l1t[i][j] /\ v.l3t[i][j] = vm.l3t[i][j]

\* a field with eddies on a non-zero zonal mean was split and recomposed
C8_Witness ==
  /\ phase = "kcomposed"
  /\ \E i \in 1 .. NX, j \in JX : v.l1[i][j] # 0 /\ v.l1z[j] # 0

\* C9: relax2_nb makes at most 100 sweeps and never raises; it stops after
\* the first sweep that meets the criterion, else returns the 100th iterate,
\* and step() goes on to recompose v and advance the clock.
C9_Relax2StopsOrCaps ==
  [][ (nsteps' # nsteps /\ phase' # "failed") =>
        ( /\ r2'.iter >= 0 /\ r2'.iter <= MaxIter - 1
          /\ (r2'.converged \/ r2'.iter = MaxIter - 1)
          /\ ~r2'.early
          /\ err' = "" /\ time' = time + dt /\ Consistent(v') ) ]_vars

\* relax2_nb used up its 100 sweeps and the step completed
C9_Witness ==
  /\ phase = "run" /\ nsteps >= 1 /\ err = ""
  /\ r2.iter = MaxIter - 1 /\ ~r2.converged

\* C10 as stated: with a zero vorticity anomaly relax1_nb returns a zero
\* anomaly streamfunction at every interior point, whatever the seed.
C10_ZeroWhateverSeed ==
  (phase = "krelax1" /\ v.l1 = ZeroLev /\ v.l3 = ZeroLev)
    => (ZeroInside(s.l1) /\ ZeroInside(s.l3))

\* C10 as the code has it: with a zero vorticity anomaly the interior of the
\* returned streamfunction is bounded by the largest absolute value of the
\* seed (x keeps the seed); it is zero when the seed is zero.
C10_BoundedBySeed ==
  (phase = "krelax1" /\ v.l1 = ZeroLev /\ v.l3 = ZeroLev)
    => \A i \in 1 .. NX, j \in 1 .. NY - 1 :
         /\ Abs(s.l1[i][j]) <= Max(MaxAbs(x.l1), MaxAbs(x.l3))
         /\ Abs(s.l3[i][j]) <= Max(MaxAbs(x.l1), MaxAbs(x.l3))

\* several sweeps on a non-zero seed returned a non-zero streamfunction
C10_Witness ==
  /\ phase = "krelax1" /\ v.l1 = ZeroLev /\ v.l3 = ZeroLev
  /\ r1.iter > 0 /\ ~ZeroInside(s.l1)

\* The stages of step() in the order of the claim, with the diagnostics that
\* step() runs between recomposing s and the tendency.
StepStages ==
  <<"run", "zonal", "relax1", "compose_s", "diag", "tendency", "split_x",
    "zvor", "relax2", "compose_v", "clock", "adapt", "run">>

\* C11: step() goes through its stages in the order split v, zonal solve,
\* relaxation of s, recomposition of s, tendency, split of the tendency,
\* zonal vorticity solve, relaxation of v, recomposition of v, clock,
\* adaptation; s is written only before the tendency, x only by the tendency
\* and its split, the totals of v only by the recomposition, the clock only
\* after it; the tendency reads the s diagnosed from this step's v, and the
\* clock advances on a recomposed v holding this step's relaxed anomaly.
C11_StagesInOrder ==
  [][ (phase # "run" \/ phase' = "zonal") =>
        /\ \/ phase \in {"new", "spinup", "spunup"}
           \/ \E k \in 1 .. Len(StepStages) - 1 :
                phase = StepStages[k] /\ phase' \in {StepStages[k + 1], "failed"}
        /\ (phase \notin {"new", "spinup", "spunup"}) =>
             /\ s' # s => phase \in {"zonal", "relax1", "compose_s"}
             /\ x' # x => phase \in {"tendency", "split_x"}
             /\ (v'.l1t # v.l1t \/ v'.l3t # v.l3t) => phase = "compose_v"
             /\ time' # time => phase = "clock"
             /\ dt' # dt => phase = "adapt"
        /\ phase = "tendency" =>
             /\ Consistent(s)
             /\ s.l1z = calc_zonstream(v, s, fac).l1z
             /\ s.l3z = calc_zonstream(v, s, fac).l3z
             /\ x'.l1t = xcalc_nb(x, v, vm, s, dt, heat).l1t
             /\ x'.l3t = xcalc_nb(x, v, vm, s, dt, heat).l3t
        /\ phase = "clock" =>
             /\ Consistent(v)
             /\ v.l1 = relax2_nb(x.l1, x.l3, dt).v1
             /\ v.l3 = relax2_nb(x.l1, x.l3, dt).v3
             /\ time' = time + dt ]_vars

\* a second or later step is past its clock advance, with eddies in s, x and v
C11_Witness ==
  /\ phase = "adapt" /\ nsteps >= 2
  /\ s.l1 # ZeroLev /\ x.l1 # ZeroLev /\ v.l1 # ZeroLev /\ v.l1z # ZeroZ

\* change1 or change3 of the first sweep of relax2_nb (v1 = v3 = 0) overflows
Relax2Overflows(x1, x3, d) ==
  \/ SquareOverflows(ZeroLev, R2Temp(ZeroLev, x1, alpha(d), R2Den1(d)))
  \/ SquareOverflows(ZeroLev, R2Temp(ZeroLev, x3, alpha(d), R2Den3(d)))

\* C12: a floating-point overflow inside a compiled kernel aborts the run: no
\* call of relax2_nb in which the sum of squared changes overflows returns
\* normally.
C12_OverflowAborts ==
  (phase = "krelax2" /\ Relax2Overflows(vm.l1, vm.l3, dt))
    => err # ""

\* (p,q) is visited before (i,j) by "for j in range(1,ny): for i in range(1,nx+1)"
VisitedBefore(p, q, i, j) == q < j \/ (q = j /\ p < i)

\* The array a sweep has in hand when it is at (i,j): the new values at the
\* points already visited (and at (i,j) itself when "own"), the old elsewhere.
InHand(new, old, i, j, own) ==
  [p \in IX |-> [q \in JX |->
     IF VisitedBefore(p, q, i, j) \/ (own /\ p = i /\ q = j)
     THEN new[p][q] ELSE old[p][q]]]

C14_BoundaryRowsKept ==
  phase = "kxcalc" =>
    \A i \in IX :
      /\ v.l1t[i][0] = vm.l1t[i][0] /\ v.l1t[i][NY] = vm.l1t[i][NY]
      /\ v.l3t[i][0] = vm.l3t[i][0] /\ v.l3t[i][NY] = vm.l3t[i][NY]

\* C14 as the code has it: xcalc_nb clears both arrays and then assigns rows
\* 1..ny-1 at longitudes 1..nx, so rows 0 and ny and longitude 0 are zero
\* after the call whatever they held; the other arrays of the Var are left.
C14_BoundaryRowsZeroed ==
  phase = "kxcalc" =>
    /\ \A i \in IX, j \in JX :
         ~(i >= 1 /\ j >= 1 /\ j <= NY - 1) =>
           (v.l1t[i][j] = 0 /\ v.l3t[i][j] = 0)
    /\ \A i \in 1 .. NX, j \in 1 .. NY - 1 :
         v.l1t[i][j] = XTend(vm.l1t, vm.l1t, s.l1t, ccoef(dt), alpha(dt),
                             hcoef(dt, heat), i, j)
    /\ v.l1 = vm.l1 /\ v.l3 = vm.l3 /\ v.l1z = vm.l1z /\ v.l3z = vm.l3z

\* the arrays handed to xcalc_nb held non-zero values in rows 0 and ny
C14_Witness ==
  /\ phase = "kxcalc"
  /\ vm.l1t[1][0] # 0 /\ vm.l3t[1][NY] # 0 /\ vm.l1t[0][1] # 0
  /\ v.l1t[1][1] # 0

\* C15: a completed step() lowers dt exactly when variable_step is on, the
\* advanced clock is a multiple of 86400 s, dt > min_dt and the stability
\* criterion of the step's streamfunction with the old dt is above 0.9; then
\* dt drops by min_dt and vm's total becomes v - (v - vm)*(dt - min_dt)/dt
\* with the old dt, v the new total and vm the previous-time total of this
\* step; otherwise dt is unchanged and vm is that previous-time total.  A
\* step() that raises changes neither dt nor vm.
C15_AdaptsExactlyWhen ==
  [][ nsteps' # nsteps =>
        IF phase' = "failed"
        THEN dt' = dt /\ vm' = vm
        ELSE
          LET crit == /\ variable_step
                      /\ time' % DaySec = 0
                      /\ dt > min_dt
                      /\ stability_criterion(dt, s') > 900
              prev1 == IF time = 0 THEN vm.l1t ELSE v.l1t
              prev3 == IF time = 0 THEN vm.l3t ELSE v.l3t
          IN  /\ (dt' # dt) <=> crit
              /\ dt' = IF crit THEN dt - min_dt ELSE dt
              /\ \A i \in IX, j \in JX :
                   /\ vm'.l1t[i][j] =
                        IF crit
                        THEN v'.l1t[i][j]
                             - MulDiv(v'.l1t[i][j] - prev1[i][j], dt - min_dt, dt)
                        ELSE prev1[i][j]
                   /\ vm'.l3t[i][j] =
                        IF crit
                        THEN v'.l3t[i][j]
                             - MulDiv(v'.l3t[i][j] - prev3[i][j], dt - min_dt, dt)
                        ELSE prev3[i][j] ]_vars

\* the step that reached the first day boundary lowered dt and moved vm
C15_Witness ==
  /\ phase = "run" /\ nsteps >= 1 /\ time % DaySec = 0
  /\ dt = dt2 - min_dt
  /\ time = day1 * DaySec + DaySec
  /\ vm.l1t # v.l1t

\* C16: a spinup iteration or completed step() entered with clock 0 sets the
\* zonal-mean vorticity to half the zonal-mean tendency and leaves vm as it
\* was; entered with any other clock it sets the zonal-mean vorticity to the
\* tridiagonal solve and overwrites vm's total with v's total at entry (which
\* the adaptation stage of the same step then interpolates towards the new v
\* when it lowers dt).  The clock is 0 only before the first iteration or
\* step and never decreases, so the clock-0 branch is taken at most once.
C16_ForwardStepFromRestOnce ==
  [][ /\ time' >= time
      /\ time = 0 => phase = "new"
      /\ ( \/ phase \in {"new", "spinup"} /\ phase' \in {"spinup", "spunup"}
           \/ nsteps' # nsteps /\ phase' # "failed" ) =>
           /\ time' > time
           /\ IF time = 0
              THEN /\ \A j \in JX :
                        /\ v'.l1z[j] = MulDiv(x'.l1z[j], 1, 2)
                        /\ v'.l3z[j] = MulDiv(x'.l3z[j], 1, 2)
                   /\ vm' = vm
              ELSE /\ v'.l1z = calc_zvor(x', dt, v).l1z
                   /\ v'.l3z = calc_zvor(x', dt, v).l3z
                   /\ \A i \in IX, j \in JX :
                        /\ vm'.l1t[i][j] =
                             IF dt' = dt THEN v.l1t[i][j]
                             ELSE v'.l1t[i][j]
                                  - MulDiv(v'.l1t[i][j] - v.l1t[i][j], dt', dt)
                        /\ vm'.l3t[i][j] =
                             IF dt' = dt THEN v.l3t[i][j]
                             ELSE v'.l3t[i][j]
                                  - MulDiv(v'.l3t[i][j] - v.l3t[i][j], dt', dt) ]_vars

\* the first spinup iteration has made the forward step from rest
C16_Witness ==
  /\ phase = "spinup" /\ time = dt1
  /\ v.l1z # ZeroZ /\ x.l1z # ZeroZ /\ vm = NewVar
  /\ \A j \in JX : v.l1z[j] = MulDiv(x.l1z[j], 1, 2)

\* The zonal-mean vorticity of both levels that solves the tridiagonal
\* systems with off-diagonals off, level-1 diagonal diag (level 3 shifted by
\* -1.5*k*d) and right-hand side the negated zonal-mean tendency xx.
ZvorOf(off, diag, d, xx) ==
  LET offs  == [r \in 1 .. zn - 1 |-> off]
      diag3 == [r \in 1 .. zn |-> diag[r] - Mul(kdt15(d), ZScale)]
  IN  [l1z |-> ZvorBC(dgtsv(offs, diag, offs, [r \in 1 .. zn |-> -xx.l1z[r]])),
       l3z |-> ZvorBC(dgtsv(offs, diag3, offs, [r \in 1 .. zn |-> -xx.l3z[r]]))]

\* a spinup iteration or completed step() that calls calc_zvor
ZvorCalled ==
  /\ time # 0
  /\ \/ phase \in {"new", "spinup"} /\ phase' \in {"spinup", "spunup"}
     \/ nsteps' # nsteps /\ phase' # "failed"

\* C17 as stated: the system solved by calc_zvor has diagonal
\* -2*alpha*epsq - 1 on every row 1..ny-1.
C17_SameDiagonalEveryRow ==
  [][ ZvorCalled =>
        LET off == Mul(RatMul(alpha(dt), epsq), ZScale)
            z   == ZvorOf(off, [r \in 1 .. zn |-> -2 * off - ZScale], dt, x')
        IN  v'.l1z = z.l1z /\ v'.l3z = z.l3z ]_vars

\* C17 amended: off-diagonals alpha*epsq on every row; diagonal
\* -2*alpha*epsq - 1 on rows 2..ny-2 and -alpha*epsq - 1 on the first and
\* last rows 1 and ny-1 (level 3 shifted by -1.5*k*dt on every row);
\* right-hand side the negated zonal-mean tendency of the row.
C17_EndRowsSingleDiagonal ==
  [][ ZvorCalled =>
        LET off == Mul(RatMul(alpha(dt), epsq), ZScale)
            z   == ZvorOf(off, [r \in 1 .. zn |->
                                  IF r \in 2 .. NY - 2 THEN -2 * off - ZScale
                                  ELSE -off - ZScale], dt, x')
        IN  v'.l1z = z.l1z /\ v'.l3z = z.l3z ]_vars

\* calc_zvor has solved for a zonal-mean vorticity that varies with latitude
C17_Witness ==
  /\ phase = "spinup" /\ time > dt1
  /\ x.l1z # ZeroZ /\ x.l3z # ZeroZ
  /\ v.l1z[1] # v.l1z[2] /\ v.l3z[1] # v.l3z[2]

\* C18: the zonal-mean streamfunction left by calc_zonstream has zero
\* gradient at the edges, s1z[0] = s1z[1], s1z[ny] = s1z[ny-1],
\* s3z[ny] = s3z[ny-1], and level 3 is zero at rows 0 and 1.
C18_ZonstreamBoundary ==
  /\ s.l1z[0] = s.l1z[1]
  /\ s.l1z[NY] = s.l1z[NY - 1]
  /\ s.l3z[NY] = s.l3z[NY - 1]
  /\ s.l3z[0] = 0 /\ s.l3z[1] = 0

\* calc_zonstream has solved for a non-zero streamfunction on both levels
C18_Witness ==
  /\ phase \in {"spinup", "spunup", "run"} /\ time > 0
  /\ v.l1z # ZeroZ /\ v.l3z # ZeroZ
  /\ s.l1z[1] # 0 /\ s.l1z[NY - 1] # 0
  /\ s.l3z[2] # 0 /\ s.l3z[NY - 1] # 0

\* C19: in regular stepping started at day day1 with dt2 = 7200 and
\* min_dt = 1800, dt always divides the day and the clock within the day is a
\* multiple of dt; so a step that enters a new day lands exactly on its
\* boundary, no step passes over one, and dt stays at or above min_dt.
C19_ClockOnDtGrid ==
  /\ [](phase = "run" =>
          /\ dt >= min_dt
          /\ DaySec % dt = 0
          /\ (time % DaySec) % dt = 0)
  /\ [][(phase = "run" /\ nsteps' # nsteps /\ phase' = "run") =>
          /\ time' \div DaySec <= time \div DaySec + 1
          /\ time' \div DaySec # time \div DaySec => time' % DaySec = 0 ]_vars

\* the sixteen steps of 5400 s have landed on the boundary of the next day
C19_Witness ==
  /\ phase = "run" /\ variable_step
  /\ time = (day1 + 2) * DaySec
  /\ dt < dt2 - min_dt

====
